---- MODULE Spec2Model ----
(***************************************************************************)
(* Model of x_lead_tracker_ui.py: the Streamlit session state, the two     *)
(* sidebar buttons (Start Lead Search, Clear Results), the function        *)
(* track_leads_on_x with its per-query loop over agent.run (Spec), and the *)
(* score counts, filter and sort of the tabs (SpecTabs).                   *)
(*                                                                         *)
(* Python strings are sequences of one-character strings: the query text   *)
(* area is inspected character by character, the credentials only for      *)
(* emptiness.  A Python dict is a function whose DOMAIN is its key set, so *)
(* that a missing key is visible.  A formatted timestamp is a one-element  *)
(* sequence holding the second it shows, None the empty sequence.          *)
(* min_lead_score is passed to track_leads_on_x but never read there, so   *)
(* it is not part of the inputs.  The progress bar and the status text are *)
(* write-only widgets and are left out.                                    *)
(***************************************************************************)
EXTENDS Integers, Sequences, FiniteSets, TLC

VARIABLES
    session_state,   \* st.session_state: leads, all_posts, search_stats
    pc,              \* position of the script run handling a button press
    inputs,          \* sidebar widget values read by the current script run
    search_queries,  \* the list built at line 402 and passed to track_leads_on_x
    idx,             \* index of the next query of the for loop (0-based)
    leads,           \* local of track_leads_on_x
    all_posts,       \* local of track_leads_on_x
    stats,           \* local of track_leads_on_x
    x_tools,         \* TRUE once XTools(...) has been constructed
    agent,           \* TRUE once Agent(...) has been constructed
    agent_calls,     \* log of agent.run invocations of the current run
    ret,             \* value returned by track_leads_on_x, <<>> before it returns
    ui,              \* messages rendered by the current script run
    now,             \* datetime.now(), in clock ticks
    tab,             \* position of the rendering of the tabs
    score_counts,    \* tab1: the score distribution, None when not rendered
    sort_by,         \* tab2: selectbox value
    filter_score,    \* tab2: multiselect value
    filtered_leads   \* tab2: the list filtered, then sorted in place

vars == <<session_state, pc, inputs, search_queries, idx, leads, all_posts,
          stats, x_tools, agent, agent_calls, ret, ui, now,
          tab, score_counts, sort_by, filter_score, filtered_leads>>

(***************************************************************************)
(* Bounds of the model.                                                    *)
(***************************************************************************)
MaxTextLen == 3
MaxClock == 3

TicksPerSecond == 2

(***************************************************************************)
(* Python values.                                                          *)
(***************************************************************************)
None == <<>>

Whitespace == {" ", "\n"}

Chars == {"a", " ", "\n"}

CredentialValues == {<<>>, <<"k">>}

MaxPostsChoices == {10, 20}

RECURSIVE TextsOfLen(_)
TextsOfLen(n) ==
    IF n = 0 THEN {<<>>}
    ELSE {Append(t, c) : t \in TextsOfLen(n - 1), c \in Chars}

Texts == UNION {TextsOfLen(n) : n \in 0..MaxTextLen}

Inputs ==
    [openai_api_key : CredentialValues,
     x_consumer_key : CredentialValues,
     x_consumer_secret : CredentialValues,
     x_access_token : CredentialValues,
     x_access_token_secret : CredentialValues,
     x_bearer_token : CredentialValues,
     search_queries_text : Texts,
     max_posts_per_query : MaxPostsChoices]

NoInputs ==
    [openai_api_key |-> <<>>, x_consumer_key |-> <<>>, x_consumer_secret |-> <<>>,
     x_access_token |-> <<>>, x_access_token_secret |-> <<>>, x_bearer_token |-> <<>>,
     search_queries_text |-> <<>>, max_posts_per_query |-> 0]

(***************************************************************************)
(* str.strip(), str.split('\n'), truthiness, all(), dict assignment/get.   *)
(***************************************************************************)
RECURSIVE LStrip(_)
LStrip(s) ==
    IF s = <<>> THEN s
    ELSE IF Head(s) \in Whitespace THEN LStrip(Tail(s)) ELSE s

RECURSIVE RStrip(_)
RStrip(s) ==
    IF s = <<>> THEN s
    ELSE IF s[Len(s)] \in Whitespace THEN RStrip(SubSeq(s, 1, Len(s) - 1)) ELSE s

Strip(s) == RStrip(LStrip(s))

RECURSIVE Split(_, _)
Split(s, sep) ==
    IF \A i \in 1..Len(s) : s[i] # sep THEN <<s>>
    ELSE LET i == CHOOSE k \in 1..Len(s) :
                     s[k] = sep /\ \A j \in 1..(k - 1) : s[j] # sep
         IN  <<SubSeq(s, 1, i - 1)>> \o Split(SubSeq(s, i + 1, Len(s)), sep)

Truthy(s) == s # <<>>

\* all() mistaken for any().
AnyTruthy(xs) == \E i \in 1..Len(xs) : Truthy(xs[i])

All(xs) == \A i \in 1..Len(xs) : Truthy(xs[i])

DictSet(d, k, v) == [f \in (DOMAIN d) \cup {k} |-> IF f = k THEN v ELSE d[f]]

DictGet(d, k, default) == IF k \in DOMAIN d THEN d[k] ELSE default

Strftime(t) == <<t \div TicksPerSecond>>

\* The comprehension without its filter: [q.strip() for q in text.split('\n')]
QueryListUnfiltered(text) ==
    LET parts == Split(text, "\n")
    IN  [i \in 1..Len(parts) |-> Strip(parts[i])]

\* [q.strip() for q in search_queries_text.split('\n') if q.strip()]
QueryList(text) ==
    LET parts == Split(text, "\n")
        stripped == [i \in 1..Len(parts) |-> Strip(parts[i])]
    IN  SelectSeq(stripped, LAMBDA q : Truthy(q))

(***************************************************************************)
(* Session state and the locals of track_leads_on_x.                       *)
(***************************************************************************)
InitialSearchStats ==
    [total_posts |-> 0, analyzed_posts |-> 0, leads_found |-> 0, last_search |-> None]

InitialSessionState ==
    [leads |-> <<>>, all_posts |-> <<>>, search_stats |-> InitialSearchStats]

InitialStats == [total_posts |-> 0, analyzed_posts |-> 0, leads_found |-> 0]

Message(kind, i) == [kind |-> kind, idx |-> i]

Init ==
    /\ session_state = InitialSessionState
    /\ pc = "idle"
    /\ inputs = NoInputs
    /\ search_queries = <<>>
    /\ idx = 0
    /\ leads = <<>>
    /\ all_posts = <<>>
    /\ stats = InitialStats
    /\ x_tools = FALSE
    /\ agent = FALSE
    /\ agent_calls = <<>>
    /\ ret = <<>>
    /\ ui = <<>>
    /\ now = 0
    /\ tab = "none"
    /\ score_counts = None
    /\ sort_by = "Score (High to Low)"
    /\ filter_score = {"High (8-10)", "Medium (5-7)", "Low (1-4)"}
    /\ filtered_leads = <<>>

\* The script run is over: its locals are gone, the widgets wait for input.
ScriptRunEnds ==
    /\ pc' = "idle"
    /\ inputs' = NoInputs
    /\ search_queries' = <<>>
    /\ idx' = 0
    /\ leads' = <<>>
    /\ all_posts' = <<>>
    /\ stats' = InitialStats
    /\ x_tools' = FALSE
    /\ agent' = FALSE
    /\ agent_calls' = <<>>
    /\ ret' = <<>>

Locals == <<search_queries, idx, leads, all_posts, stats, x_tools, agent, agent_calls, ret>>

Tabs == <<tab, score_counts, sort_by, filter_score, filtered_leads>>

(***************************************************************************)
(* Clear Results button: the session state is reset and the success        *)
(* message rendered; st.rerun() then starts a fresh script run, which      *)
(* renders no message.                                                     *)
(***************************************************************************)
\* The statistics forgotten by the reset.
ClearButtonKeepsStats ==
    /\ pc = "idle"
    /\ session_state' = [leads |-> <<>>, all_posts |-> <<>>,
                         search_stats |-> session_state.search_stats]
    /\ ui' = <<Message("success_cleared", 0)>>
    /\ pc' = "rerun"
    /\ UNCHANGED <<inputs, Locals, now>>
    /\ UNCHANGED Tabs

ClearButton ==
    /\ pc = "idle"
    /\ session_state' = [leads |-> <<>>, all_posts |-> <<>>,
                         search_stats |-> [total_posts |-> 0, analyzed_posts |-> 0,
                                           leads_found |-> 0, last_search |-> None]]
    /\ ui' = <<Message("success_cleared", 0)>>
    /\ pc' = "rerun"
    /\ UNCHANGED <<inputs, Locals, now>>
    /\ UNCHANGED Tabs

Rerun ==
    /\ pc = "rerun"
    /\ ui' = <<>>
    /\ pc' = "idle"
    /\ UNCHANGED <<session_state, inputs, Locals, now>>
    /\ UNCHANGED Tabs

(***************************************************************************)
(* Start Lead Search button: the script run reads the widgets ...          *)
(***************************************************************************)
SearchButton ==
    /\ pc = "idle"
    /\ \E in \in Inputs : inputs' = in
    /\ pc' = "validate"
    /\ ui' = <<>>
    /\ UNCHANGED <<session_state, Locals, now>>
    /\ UNCHANGED Tabs

(***************************************************************************)
(* ... validates them, and either reports one error or builds the query    *)
(* list and enters track_leads_on_x (locals initialised).                  *)
(***************************************************************************)
\* A rejected request that also drops the results held by the session.
ValidateDropsResults ==
    /\ pc = "validate"
    /\ IF ~Truthy(inputs.openai_api_key) \/ inputs.openai_api_key = <<>>
       THEN /\ ui' = Append(ui, Message("error_openai_api_key", 0))
            /\ ScriptRunEnds
       ELSE IF ~All(<<inputs.x_consumer_key, inputs.x_consumer_secret,
                      inputs.x_access_token, inputs.x_access_token_secret,
                      inputs.x_bearer_token>>)
       THEN /\ ui' = Append(ui, Message("error_x_credentials", 0))
            /\ ScriptRunEnds
       ELSE IF ~Truthy(Strip(inputs.search_queries_text))
       THEN /\ ui' = Append(ui, Message("error_no_query", 0))
            /\ ScriptRunEnds
       ELSE /\ search_queries' = QueryList(inputs.search_queries_text)
            /\ leads' = <<>>
            /\ all_posts' = <<>>
            /\ stats' = [total_posts |-> 0, analyzed_posts |-> 0, leads_found |-> 0]
            /\ pc' = "init_client"
            /\ UNCHANGED <<inputs, idx, x_tools, agent, agent_calls, ret, ui>>
    /\ session_state' = IF pc' = "idle" THEN InitialSessionState ELSE session_state
    /\ UNCHANGED now
    /\ UNCHANGED Tabs

Validate ==
    /\ pc = "validate"
    /\ IF ~Truthy(inputs.openai_api_key) \/ inputs.openai_api_key = <<>>
       THEN /\ ui' = Append(ui, Message("error_openai_api_key", 0))
            /\ ScriptRunEnds
       ELSE IF ~All(<<inputs.x_consumer_key, inputs.x_consumer_secret,
                      inputs.x_access_token, inputs.x_access_token_secret,
                      inputs.x_bearer_token>>)
       THEN /\ ui' = Append(ui, Message("error_x_credentials", 0))
            /\ ScriptRunEnds
       ELSE IF ~Truthy(Strip(inputs.search_queries_text))
       THEN /\ ui' = Append(ui, Message("error_no_query", 0))
            /\ ScriptRunEnds
       ELSE /\ search_queries' = QueryList(inputs.search_queries_text)
            /\ leads' = <<>>
            /\ all_posts' = <<>>
            /\ stats' = [total_posts |-> 0, analyzed_posts |-> 0, leads_found |-> 0]
            /\ pc' = "init_client"
            /\ UNCHANGED <<inputs, idx, x_tools, agent, agent_calls, ret, ui>>
    /\ UNCHANGED <<session_state, now>>
    /\ UNCHANGED Tabs

(***************************************************************************)
(* track_leads_on_x: the outer except handler.                             *)
(***************************************************************************)
\* last_search stamped on the failure path as well.
FatalExceptStamps ==
    /\ ui' = Append(ui, Message("error_lead_tracking", 0))
    /\ ret' = [leads |-> <<>>, all_posts |-> <<>>,
               stats |-> DictSet(stats, "last_search", Strftime(now))]
    /\ pc' = "returned"

FatalExcept ==
    /\ ui' = Append(ui, Message("error_lead_tracking", 0))
    /\ ret' = [leads |-> <<>>, all_posts |-> <<>>, stats |-> stats]
    /\ pc' = "returned"

InitClientOk ==
    /\ pc = "init_client"
    /\ x_tools' = TRUE
    /\ pc' = "create_agent"
    /\ UNCHANGED <<session_state, inputs, search_queries, idx, leads, all_posts,
                   stats, agent, agent_calls, ret, ui, now>>
    /\ UNCHANGED Tabs

\* initialize_x_client logs the error and does not re-raise.
InitClientRaiseSwallowed ==
    /\ pc = "init_client"
    /\ pc' = "create_agent"
    /\ UNCHANGED <<session_state, inputs, search_queries, idx, leads, all_posts,
                   stats, x_tools, agent, agent_calls, ret, ui, now>>
    /\ UNCHANGED Tabs

\* XTools(...) raises; initialize_x_client logs and re-raises.
InitClientRaise ==
    /\ pc = "init_client"
    /\ FatalExcept
    /\ UNCHANGED <<session_state, inputs, search_queries, idx, leads, all_posts,
                   stats, x_tools, agent, agent_calls, now>>
    /\ UNCHANGED Tabs

CreateAgentOk ==
    /\ pc = "create_agent"
    /\ agent' = TRUE
    /\ idx' = 0
    /\ pc' = "loop"
    /\ UNCHANGED <<session_state, inputs, search_queries, leads, all_posts,
                   stats, x_tools, agent_calls, ret, ui, now>>
    /\ UNCHANGED Tabs

CreateAgentRaise ==
    /\ pc = "create_agent"
    /\ FatalExcept
    /\ UNCHANGED <<session_state, inputs, search_queries, idx, leads, all_posts,
                   stats, x_tools, agent, agent_calls, now>>
    /\ UNCHANGED Tabs

(***************************************************************************)
(* The for loop: agent.run(search_prompt) is entered, then returns or      *)
(* raises; the inner except handler warns and the loop goes on.            *)
(***************************************************************************)
AgentRunCall ==
    /\ pc = "loop"
    /\ idx < Len(search_queries)
    /\ agent_calls' = Append(agent_calls,
                             [query |-> search_queries[idx + 1], idx |-> idx,
                              result |-> "pending"])
    /\ pc' = "calling"
    /\ UNCHANGED <<session_state, inputs, search_queries, idx, leads, all_posts,
                   stats, x_tools, agent, ret, ui, now>>
    /\ UNCHANGED Tabs

Resolve(calls, result) == [calls EXCEPT ![Len(calls)].result = result]

\* total_posts assigned instead of accumulated.
AgentRunReturnAssigns ==
    /\ pc = "calling"
    /\ agent_calls' = Resolve(agent_calls, "returned")
    /\ stats' = DictSet(stats, "total_posts", inputs.max_posts_per_query)
    /\ idx' = idx + 1
    /\ pc' = "loop"
    /\ UNCHANGED <<session_state, inputs, search_queries, leads, all_posts,
                   x_tools, agent, ret, ui, now>>
    /\ UNCHANGED Tabs

\* The running counters written to the session state inside the loop.
AgentRunReturnPublishes ==
    /\ pc = "calling"
    /\ agent_calls' = Resolve(agent_calls, "returned")
    /\ stats' = DictSet(stats, "total_posts",
                        stats["total_posts"] + inputs.max_posts_per_query)
    /\ session_state' = [session_state EXCEPT !.search_stats = stats']
    /\ idx' = idx + 1
    /\ pc' = "loop"
    /\ UNCHANGED <<inputs, search_queries, leads, all_posts,
                   x_tools, agent, ret, ui, now>>
    /\ UNCHANGED Tabs

\* The requested capacity counted as analyzed posts.
AgentRunReturnCountsAnalyzed ==
    /\ pc = "calling"
    /\ agent_calls' = Resolve(agent_calls, "returned")
    /\ stats' = DictSet(stats, "analyzed_posts",
                        stats["analyzed_posts"] + inputs.max_posts_per_query)
    /\ idx' = idx + 1
    /\ pc' = "loop"
    /\ UNCHANGED <<session_state, inputs, search_queries, leads, all_posts,
                   x_tools, agent, ret, ui, now>>
    /\ UNCHANGED Tabs

AgentRunReturn ==
    /\ pc = "calling"
    /\ agent_calls' = Resolve(agent_calls, "returned")
    /\ stats' = DictSet(stats, "total_posts",
                        stats["total_posts"] + inputs.max_posts_per_query)
    /\ idx' = idx + 1
    /\ pc' = "loop"
    /\ UNCHANGED <<session_state, inputs, search_queries, leads, all_posts,
                   x_tools, agent, ret, ui, now>>
    /\ UNCHANGED Tabs

\* No inner try: the exception of agent.run reaches the outer handler.
AgentRunRaiseAborts ==
    /\ pc = "calling"
    /\ agent_calls' = Resolve(agent_calls, "raised")
    /\ FatalExcept
    /\ UNCHANGED <<session_state, inputs, search_queries, idx, leads, all_posts,
                   stats, x_tools, agent, now>>
    /\ UNCHANGED Tabs

\* total_posts incremented before agent.run, so also for a query that raises.
AgentRunRaiseCounts ==
    /\ pc = "calling"
    /\ agent_calls' = Resolve(agent_calls, "raised")
    /\ stats' = DictSet(stats, "total_posts",
                        stats["total_posts"] + inputs.max_posts_per_query)
    /\ ui' = Append(ui, Message("warning_query", idx))
    /\ idx' = idx + 1
    /\ pc' = "loop"
    /\ UNCHANGED <<session_state, inputs, search_queries, leads, all_posts,
                   x_tools, agent, ret, now>>
    /\ UNCHANGED Tabs

\* The loop index not advanced after a failure: the same query is retried.
AgentRunRaiseRetries ==
    /\ pc = "calling"
    /\ agent_calls' = Resolve(agent_calls, "raised")
    /\ ui' = Append(ui, Message("warning_query", idx))
    /\ pc' = "loop"
    /\ Len(agent_calls) < 2 * Len(search_queries)
    /\ UNCHANGED <<session_state, inputs, search_queries, idx, leads, all_posts,
                   stats, x_tools, agent, ret, now>>
    /\ UNCHANGED Tabs

AgentRunRaise ==
    /\ pc = "calling"
    /\ agent_calls' = Resolve(agent_calls, "raised")
    /\ ui' = Append(ui, Message("warning_query", idx))
    /\ idx' = idx + 1
    /\ pc' = "loop"
    /\ UNCHANGED <<session_state, inputs, search_queries, leads, all_posts,
                   stats, x_tools, agent, ret, now>>
    /\ UNCHANGED Tabs

\* After the loop: stamp last_search and return.
LoopEnd ==
    /\ pc = "loop"
    /\ idx = Len(search_queries)
    /\ stats' = DictSet(stats, "last_search", Strftime(now))
    /\ ret' = [leads |-> leads, all_posts |-> all_posts, stats |-> stats']
    /\ pc' = "returned"
    /\ UNCHANGED <<session_state, inputs, search_queries, idx, leads, all_posts,
                   x_tools, agent, agent_calls, ui, now>>
    /\ UNCHANGED Tabs

(***************************************************************************)
(* Back in the button handler: the returned triple is assigned to the      *)
(* session state and the outcome message is rendered.                      *)
(***************************************************************************)
Publish ==
    /\ pc = "returned"
    /\ session_state' = [leads |-> ret.leads, all_posts |-> ret.all_posts,
                         search_stats |-> ret.stats]
    /\ ui' = Append(ui, IF ret.leads # <<>>
                        THEN Message("success_found", Len(ret.leads))
                        ELSE Message("info_no_leads", 0))
    /\ ScriptRunEnds
    /\ UNCHANGED now
    /\ UNCHANGED Tabs

\* Time passes.
Tick ==
    /\ now < MaxClock
    /\ now' = now + 1
    /\ UNCHANGED <<session_state, pc, inputs, Locals, ui>>
    /\ UNCHANGED Tabs

(***************************************************************************)
(* The tabs.  tab1 counts the leads per score range; tab2 filters the      *)
(* session's leads by the selected score ranges and then sorts the result  *)
(* in place.  Both only do so when the session holds leads, which no run   *)
(* of track_leads_on_x produces: they are exercised from initial states    *)
(* that draw the session's lead list, in a specification of their own.     *)
(* A lead is a dict with (at least) the keys author and score.             *)
(***************************************************************************)
MaxLeads == 2

Scores == 1..10

Authors == {"a", "b"}

\* Code point of a one-character string: the order of str comparison.
Ord(c) == IF c = "a" THEN 97 ELSE 98

RECURSIVE LeadListsOfLen(_)
LeadListsOfLen(n) ==
    IF n = 0 THEN {<<>>}
    ELSE {Append(ls, [author |-> a, score |-> sc]) :
              ls \in LeadListsOfLen(n - 1), a \in Authors, sc \in Scores}

LeadLists == UNION {LeadListsOfLen(n) : n \in 0..MaxLeads}

ScoreRanges == {"High (8-10)", "Medium (5-7)", "Low (1-4)"}

SortOptions == {"Score (High to Low)", "Score (Low to High)", "Author A-Z"}

\* The conditions of the three comprehensions of score_counts.
InRange(range, sc) ==
    IF range = "High (8-10)" THEN sc >= 8
    ELSE IF range = "Medium (5-7)" THEN 5 <= sc /\ sc < 8
    ELSE sc < 5

ScoreCounts(ls) ==
    LET scores == [i \in 1..Len(ls) |-> DictGet(ls[i], "score", 0)]
    IN  [range \in ScoreRanges |->
            Len(SelectSeq(scores, LAMBDA sc : InRange(range, sc)))]

\* The High filter with its boundary off by one.
FilterLeadsKeepsEight(ls, selected) ==
    LET copy == ls
        noHigh == IF "High (8-10)" \notin selected
                  THEN SelectSeq(copy, LAMBDA l : DictGet(l, "score", 0) <= 8)
                  ELSE copy
        noMedium == IF "Medium (5-7)" \notin selected
                    THEN SelectSeq(noHigh, LAMBDA l : ~(5 <= DictGet(l, "score", 0)
                                                        /\ DictGet(l, "score", 0) < 8))
                    ELSE noHigh
    IN  IF "Low (1-4)" \notin selected
        THEN SelectSeq(noMedium, LAMBDA l : DictGet(l, "score", 0) >= 5)
        ELSE noMedium

\* Lines 505-512: three successive list comprehensions over a copy.
FilterLeads(ls, selected) ==
    LET copy == ls
        noHigh == IF "High (8-10)" \notin selected
                  THEN SelectSeq(copy, LAMBDA l : DictGet(l, "score", 0) < 8)
                  ELSE copy
        noMedium == IF "Medium (5-7)" \notin selected
                    THEN SelectSeq(noHigh, LAMBDA l : ~(5 <= DictGet(l, "score", 0)
                                                        /\ DictGet(l, "score", 0) < 8))
                    ELSE noHigh
    IN  IF "Low (1-4)" \notin selected
        THEN SelectSeq(noMedium, LAMBDA l : DictGet(l, "score", 0) >= 5)
        ELSE noMedium

\* list.sort is stable, also with reverse=True: descending by score is the
\* stable ascending order of the negated score.
SortKey(l, option) ==
    IF option = "Score (High to Low)" THEN 0 - DictGet(l, "score", 0)
    ELSE IF option = "Score (Low to High)" THEN DictGet(l, "score", 0)
    ELSE Ord(l.author)

RECURSIVE StableSort(_, _)
StableSort(ls, option) ==
    IF ls = <<>> THEN <<>>
    ELSE LET front == StableSort(SubSeq(ls, 1, Len(ls) - 1), option)
             x == ls[Len(ls)]
             n == Cardinality({i \in 1..Len(front) :
                                   SortKey(front[i], option) <= SortKey(x, option)})
         IN  SubSeq(front, 1, n) \o <<x>> \o SubSeq(front, n + 1, Len(front))

InitTabs ==
    /\ \E ls \in LeadLists :
           session_state = [leads |-> ls, all_posts |-> <<>>,
                            search_stats |-> InitialSearchStats]
    /\ pc = "idle"
    /\ inputs = NoInputs
    /\ search_queries = <<>>
    /\ idx = 0
    /\ leads = <<>>
    /\ all_posts = <<>>
    /\ stats = InitialStats
    /\ x_tools = FALSE
    /\ agent = FALSE
    /\ agent_calls = <<>>
    /\ ret = <<>>
    /\ ui = <<>>
    /\ now = 0
    /\ tab = "none"
    /\ score_counts = None
    /\ sort_by = "Score (High to Low)"
    /\ filter_score = ScoreRanges
    /\ filtered_leads = <<>>

NotTabs == <<session_state, pc, inputs, Locals, ui, now>>

\* tab1: the score distribution is computed only when there are leads.
RenderDashboard ==
    /\ tab = "none"
    /\ score_counts' = IF session_state.leads # <<>>
                       THEN ScoreCounts(session_state.leads)
                       ELSE None
    /\ tab' = "dashboard"
    /\ UNCHANGED <<NotTabs, sort_by, filter_score, filtered_leads>>

\* tab2 without leads: only the hint is shown.
NoLeadsYet ==
    /\ tab = "dashboard"
    /\ session_state.leads = <<>>
    /\ tab' = "rendered"
    /\ UNCHANGED <<NotTabs, score_counts, sort_by, filter_score, filtered_leads>>

\* tab2 with leads: the widgets are read and the filters applied.
ApplyFilters ==
    /\ tab = "dashboard"
    /\ session_state.leads # <<>>
    /\ \E option \in SortOptions : sort_by' = option
    /\ \E selected \in SUBSET ScoreRanges :
           /\ filter_score' = selected
           /\ filtered_leads' = FilterLeads(session_state.leads, selected)
    /\ tab' = "filtered"
    /\ UNCHANGED <<NotTabs, score_counts>>

ApplySorting ==
    /\ tab = "filtered"
    /\ filtered_leads' = StableSort(filtered_leads, sort_by)
    /\ tab' = "rendered"
    /\ UNCHANGED <<NotTabs, score_counts, sort_by, filter_score>>

\* A widget is changed: the script runs again, the widgets keep their values.
RenderAgain ==
    /\ tab = "rendered"
    /\ tab' = "none"
    /\ score_counts' = None
    /\ filtered_leads' = <<>>
    /\ UNCHANGED <<NotTabs, sort_by, filter_score>>

NextTabs ==
    \/ RenderDashboard
    \/ NoLeadsYet
    \/ ApplyFilters
    \/ ApplySorting
    \/ RenderAgain

SpecTabs == InitTabs /\ [][NextTabs]_vars

Next ==
    \/ ClearButton
    \/ Rerun
    \/ SearchButton
    \/ Validate
    \/ InitClientOk
    \/ InitClientRaise
    \/ CreateAgentOk
    \/ CreateAgentRaise
    \/ AgentRunCall
    \/ AgentRunReturn
    \/ AgentRunRaise
    \/ LoopEnd
    \/ Publish
    \/ Tick

Spec == Init /\ [][Next]_vars

(***************************************************************************)
(* Vocabulary of the properties.                                           *)
(***************************************************************************)
RunPcs == {"init_client", "create_agent", "loop", "calling", "returned"}

CredentialFields ==
    {"openai_api_key", "x_consumer_key", "x_consumer_secret", "x_access_token",
     "x_access_token_secret", "x_bearer_token"}

HasEmptyCredential(in) == \E f \in CredentialFields : in[f] = <<>>

Kinds(msgs) == {msgs[i].kind : i \in 1..Len(msgs)}

CountResult(calls, result) ==
    Cardinality({i \in 1..Len(calls) : calls[i].result = result})

\* The step taken is the validation of the inputs just read.
ValidateStep == pc = "validate" /\ pc' # "validate"

\* track_leads_on_x has returned from the statement after its for loop.
LoopCompleted ==
    /\ pc = "returned"
    /\ "error_lead_tracking" \notin Kinds(ui)

\* track_leads_on_x has returned from its outer except handler.
FatallyFailed ==
    /\ pc = "returned"
    /\ "error_lead_tracking" \in Kinds(ui)

(***************************************************************************)
(* C1.  A search request with an empty OpenAI key or an empty X credential *)
(* is rejected by validation with a missing-credential error, and nothing  *)
(* external is touched: the X client and the agent are not constructed and *)
(* agent.run is not invoked.  Hence no run is ever in progress on inputs   *)
(* that have an empty credential.                                          *)
(***************************************************************************)
C1_Rejects ==
    (ValidateStep /\ HasEmptyCredential(inputs))
        => /\ pc' = "idle"
           /\ Len(ui') = 1
           /\ ui'[1].kind \in {"error_openai_api_key", "error_x_credentials"}
           /\ x_tools' = FALSE
           /\ agent' = FALSE
           /\ agent_calls' = <<>>

C1_NoExternalCall ==
    (pc \in RunPcs \/ x_tools \/ agent \/ agent_calls # <<>>)
        => ~HasEmptyCredential(inputs)

C1_MissingCredential == [][C1_Rejects]_vars /\ []C1_NoExternalCall

C1_Witness ==
    /\ pc = "idle"
    /\ ui = <<Message("error_x_credentials", 0)>>
    /\ ~x_tools /\ ~agent /\ agent_calls = <<>>

(***************************************************************************)
(* C2 as stated.  Whenever the query list of the text is empty, validation *)
(* ends the request with the empty-query-set error.                        *)
(***************************************************************************)
C2_AsStated ==
    [][(ValidateStep /\ QueryList(inputs.search_queries_text) = <<>>)
          => (pc' = "idle" /\ ui' = <<Message("error_no_query", 0)>>)]_vars

(***************************************************************************)
(* C2 as amended.  Whenever the query list of the text is empty, the       *)
(* request is rejected and no run starts; the error reported is the        *)
(* empty-query-set error when all six credentials are present (the         *)
(* credential checks come first).  Conversely a run only ever works on the *)
(* query list of its text, which has at least one query, each of them      *)
(* non-blank, trimmed and free of newlines.                                *)
(***************************************************************************)
C2_Rejects ==
    (ValidateStep /\ QueryList(inputs.search_queries_text) = <<>>)
        => /\ pc' = "idle"
           /\ Len(ui') = 1
           /\ ~HasEmptyCredential(inputs) => ui'[1].kind = "error_no_query"

C2_RunHasQueries ==
    pc \in RunPcs
        => /\ search_queries = QueryList(inputs.search_queries_text)
           /\ Len(search_queries) >= 1
           /\ \A i \in 1..Len(search_queries) :
                  /\ search_queries[i] # <<>>
                  /\ Strip(search_queries[i]) = search_queries[i]
                  /\ \A j \in 1..Len(search_queries[i]) : search_queries[i][j] # "\n"

C2_EmptyQuerySet == [][C2_Rejects]_vars /\ []C2_RunHasQueries

C2_Witness ==
    /\ pc = "idle"
    /\ ui = <<Message("error_no_query", 0)>>

(***************************************************************************)
(* C3.  When agent.run raises for query i, the except handler adds no      *)
(* post and no lead and leaves the counters alone, and the loop moves on   *)
(* to query i+1: a run that is not fatally failed has called agent.run     *)
(* once for every query of the list, in order, and its total_posts counts  *)
(* every query that returned.                                              *)
(***************************************************************************)
C3_RaiseAddsNothing ==
    (pc = "calling" /\ pc' # "calling" /\ agent_calls'[Len(agent_calls')].result = "raised")
        => /\ pc' = "loop"
           /\ idx' = idx + 1
           /\ leads' = leads
           /\ all_posts' = all_posts
           /\ stats' = stats
           /\ ret' = <<>>

C3_AllQueriesCalled ==
    (pc = "returned" /\ agent)
        => /\ Len(agent_calls) = Len(search_queries)
           /\ \A i \in 1..Len(agent_calls) :
                  /\ agent_calls[i].idx = i - 1
                  /\ agent_calls[i].query = search_queries[i]
                  /\ agent_calls[i].result \in {"returned", "raised"}
           /\ ret.stats["total_posts"] =
                  inputs.max_posts_per_query * CountResult(agent_calls, "returned")
           /\ ret.leads = <<>>
           /\ ret.all_posts = <<>>

C3_NoShortCircuit == [][C3_RaiseAddsNothing]_vars /\ []C3_AllQueriesCalled

C3_Witness ==
    /\ pc = "returned"
    /\ Len(agent_calls) = 2
    /\ agent_calls[1].result = "raised"
    /\ agent_calls[2].result = "returned"
    /\ ret.stats["total_posts"] = inputs.max_posts_per_query

(***************************************************************************)
(* C4.  When agent.run was called for every query and returned each time,  *)
(* the returned total_posts is max_posts_per_query times the number of     *)
(* queries.                                                                *)
(***************************************************************************)
EveryCallSucceeded ==
    /\ pc = "returned"
    /\ Len(agent_calls) = Len(search_queries)
    /\ \A i \in 1..Len(agent_calls) : agent_calls[i].result = "returned"

C4_TotalPostsAllSucceed ==
    EveryCallSucceeded
        => ret.stats["total_posts"] = inputs.max_posts_per_query * Len(search_queries)

C4_Witness ==
    /\ EveryCallSucceeded
    /\ Len(search_queries) = 2
    /\ ret.stats["total_posts"] = 2 * inputs.max_posts_per_query

(***************************************************************************)
(* C5 as stated.  After a run that reached the end of its loop,            *)
(* total_posts is max_posts_per_query times the number of queries          *)
(* attempted, failed ones included.                                        *)
(***************************************************************************)
C5_AsStated ==
    LoopCompleted
        => ret.stats["total_posts"] = inputs.max_posts_per_query * Len(agent_calls)

(***************************************************************************)
(* C5 as amended.  total_posts grows by max_posts_per_query exactly when   *)
(* agent.run returns, and by nothing when it raises: after a run that      *)
(* reached the end of its loop it is max_posts_per_query times the number  *)
(* of queries whose call returned.                                         *)
(***************************************************************************)
C5_Accumulates ==
    (pc \in RunPcs /\ pc' \in RunPcs)
        => stats'["total_posts"] - stats["total_posts"] =
               IF pc = "calling" /\ pc' # "calling"
                  /\ agent_calls'[Len(agent_calls')].result = "returned"
               THEN inputs.max_posts_per_query
               ELSE 0

C5_CountsReturned ==
    LoopCompleted
        => ret.stats["total_posts"] =
               inputs.max_posts_per_query * CountResult(agent_calls, "returned")

C5_TotalPostsPerSuccess == [][C5_Accumulates]_vars /\ []C5_CountsReturned

C5_Witness ==
    /\ LoopCompleted
    /\ CountResult(agent_calls, "raised") = 1
    /\ CountResult(agent_calls, "returned") = 1
    /\ ret.stats["total_posts"] = inputs.max_posts_per_query

(***************************************************************************)
(* C6.  When the X client or the agent cannot be constructed, the run is   *)
(* fatally failed: no query is executed, empty posts and leads and         *)
(* all-zero counters are returned, and exactly one run-level error and no  *)
(* per-query warning is rendered.  No query executes without both objects. *)
(***************************************************************************)
C6_FatalShortCircuits ==
    /\ (pc = "returned" /\ ~(x_tools /\ agent)) => FatallyFailed
    /\ pc \in {"loop", "calling"} => (x_tools /\ agent)
    /\ FatallyFailed
           => /\ agent_calls = <<>>
              /\ ret.leads = <<>>
              /\ ret.all_posts = <<>>
              /\ ret.stats["total_posts"] = 0
              /\ ret.stats["analyzed_posts"] = 0
              /\ ret.stats["leads_found"] = 0
              /\ ui = <<Message("error_lead_tracking", 0)>>

C6_Witness ==
    /\ FatallyFailed
    /\ x_tools
    /\ ~agent
    /\ ret.stats["total_posts"] = 0

(***************************************************************************)
(* C7.  No step that leaves a search request in progress (inputs read,     *)
(* client and agent under construction, queries being processed, result    *)
(* returned but not yet assigned) changes the session state; the session   *)
(* state changes only when the handler assigns the returned triple or when *)
(* the results are cleared.                                                *)
(***************************************************************************)
C7_RunLeavesSession ==
    pc' \in RunPcs \cup {"validate"} => session_state' = session_state

C7_OnlyPublishOrClear ==
    session_state' # session_state
        => \/ pc = "returned" /\ pc' = "idle"
           \/ pc = "idle" /\ pc' = "rerun"

C7_NoPartialState == [][C7_RunLeavesSession /\ C7_OnlyPublishOrClear]_vars

C7_Witness ==
    /\ pc = "loop"
    /\ idx = 1
    /\ stats["total_posts"] = 20
    /\ session_state.search_stats["total_posts"] = 10

(***************************************************************************)
(* C8.  The Clear Results button leaves the session state equal to the     *)
(* state the session was initialised with, from whatever state it is       *)
(* pressed in.                                                             *)
(***************************************************************************)
C8_ClearResets ==
    /\ [][(pc = "idle" /\ pc' = "rerun") => session_state' = InitialSessionState]_vars
    /\ [](pc = "rerun" => session_state = InitialSessionState)

C8_Witness ==
    /\ pc = "rerun"
    /\ ui = <<Message("success_cleared", 0)>>
    /\ session_state.search_stats["last_search"] = None
    /\ now > 0

(***************************************************************************)
(* C9.  The returned stats have a last_search entry exactly when the run   *)
(* reached the end of its loop, and it is then the formatted time of that  *)
(* moment; the stats published after a fatally failed run have no          *)
(* last_search entry; the session's last_search only becomes a timestamp   *)
(* by the publication of a run that reached the end of its loop.           *)
(***************************************************************************)
C9_StampedIffCompleted ==
    /\ pc = "returned"
           => ("last_search" \in DOMAIN ret.stats
                  <=> (LoopCompleted /\ agent /\ idx = Len(search_queries)))
    /\ (pc = "idle" /\ "error_lead_tracking" \in Kinds(ui))
           => "last_search" \notin DOMAIN session_state.search_stats

C9_StampIsCompletionTime ==
    /\ (pc = "loop" /\ pc' = "returned")
           => ret'.stats["last_search"] = <<now \div TicksPerSecond>>
    /\ (/\ DictGet(session_state'.search_stats, "last_search", None) # None
        /\ session_state'.search_stats # session_state.search_stats)
           => /\ LoopCompleted
              /\ session_state'.search_stats["last_search"] = ret.stats["last_search"]

C9_LastSearch == []C9_StampedIffCompleted /\ [][C9_StampIsCompletionTime]_vars

C9_Witness ==
    /\ pc = "idle"
    /\ ui = <<Message("error_lead_tracking", 0), Message("info_no_leads", 0)>>
    /\ "last_search" \notin DOMAIN session_state.search_stats
    /\ now > 0

(***************************************************************************)
(* C10.  In every state the session's leads_found is the number of leads   *)
(* it holds and its analyzed_posts the number of posts it holds.           *)
(***************************************************************************)
C10_CountsMatchRecords ==
    /\ session_state.search_stats["leads_found"] = Len(session_state.leads)
    /\ session_state.search_stats["analyzed_posts"] = Len(session_state.all_posts)

C10_Witness ==
    /\ pc = "idle"
    /\ Kinds(ui) = {"info_no_leads"}
    /\ session_state.search_stats["total_posts"] = 40
    /\ session_state.search_stats["leads_found"] = 0
    /\ session_state.leads = <<>>

(***************************************************************************)
(* C11.  Once tab2 has applied its filters, filtered_leads is exactly the  *)
(* subsequence of the session's leads whose bucket (High: score >= 8,      *)
(* Medium: 5 <= score < 8, Low: score < 5) is among the selected ranges,   *)
(* in the original order; and every lead's score lies in exactly one of    *)
(* the three ranges counted by tab1, whose counts add up to the number of  *)
(* leads.                                                                  *)
(***************************************************************************)
Bucket(sc) ==
    IF sc >= 8 THEN "High (8-10)" ELSE IF sc >= 5 THEN "Medium (5-7)" ELSE "Low (1-4)"

C11_FilterByBucket ==
    /\ tab = "filtered"
           => filtered_leads =
                  SelectSeq(session_state.leads,
                            LAMBDA l : Bucket(l.score) \in filter_score)
    /\ (tab = "dashboard" /\ session_state.leads # <<>>)
           => /\ \A i \in 1..Len(session_state.leads) :
                     {r \in ScoreRanges : InRange(r, session_state.leads[i].score)}
                         = {Bucket(session_state.leads[i].score)}
              /\ \A r \in ScoreRanges :
                     score_counts[r] =
                         Cardinality({i \in 1..Len(session_state.leads) :
                                          Bucket(session_state.leads[i].score) = r})
              /\ score_counts["High (8-10)"] + score_counts["Medium (5-7)"]
                     + score_counts["Low (1-4)"] = Len(session_state.leads)

C11_Witness ==
    /\ tab = "filtered"
    /\ filter_score = {"High (8-10)", "Low (1-4)"}
    /\ Len(session_state.leads) = 2
    /\ session_state.leads[1].score = 8
    /\ session_state.leads[2].score = 7
    /\ filtered_leads = <<session_state.leads[1]>>

(***************************************************************************)
(* C12.  Within a run agent.run is called for the positions of the query   *)
(* list in order, each position once: the k-th call of the run is for      *)
(* query k of the submitted list, a new call begins only when every        *)
(* earlier call has returned or raised, and at most one call, the latest,  *)
(* is ever in flight.                                                      *)
(***************************************************************************)
C12_CallsInOrder ==
    /\ Len(agent_calls) <= Len(search_queries)
    /\ \A k \in 1..Len(agent_calls) :
           /\ agent_calls[k].idx = k - 1
           /\ agent_calls[k].query = search_queries[k]
           /\ agent_calls[k].result = "pending" => (k = Len(agent_calls) /\ pc = "calling")
    /\ pc = "calling" => (agent_calls # <<>> /\ agent_calls[Len(agent_calls)].result = "pending")
    /\ pc \in RunPcs => search_queries = QueryList(inputs.search_queries_text)

C12_CallBeginsAfterReturn ==
    Len(agent_calls') > Len(agent_calls)
        => /\ Len(agent_calls') = Len(agent_calls) + 1
           /\ \A k \in 1..Len(agent_calls) :
                  /\ agent_calls[k].result \in {"returned", "raised"}
                  /\ agent_calls'[k] = agent_calls[k]

C12_Sequential == []C12_CallsInOrder /\ [][C12_CallBeginsAfterReturn]_vars

C12_Witness ==
    /\ pc = "calling"
    /\ Len(agent_calls) = 2
    /\ agent_calls[1].result = "raised"
    /\ agent_calls[2].result = "pending"
    /\ agent_calls[2].idx = 1

(***************************************************************************)
(* C13.  A search request that validation rejects changes nothing the      *)
(* session holds: neither reading the widgets nor the rejecting step       *)
(* touches leads, all_posts or search_stats.                               *)
(***************************************************************************)
C13_RejectionStep ==
    \/ pc = "idle" /\ pc' = "validate"
    \/ pc = "validate" /\ pc' = "idle"

C13_RejectionKeepsSession ==
    [][C13_RejectionStep
          => /\ session_state'.leads = session_state.leads
             /\ session_state'.all_posts = session_state.all_posts
             /\ session_state'.search_stats = session_state.search_stats]_vars

C13_Witness ==
    /\ pc = "idle"
    /\ ui = <<Message("error_no_query", 0)>>
    /\ session_state.search_stats["total_posts"] = 20
    /\ DictGet(session_state.search_stats, "last_search", None) # None

====
